---- MODULE Spec2Model ----
(***************************************************************************)
(* Model of the arXiv MCP server.                                          *)
(*                                                                         *)
(* The local paper store (StorageManager): the in-memory metadata Map, its *)
(* JSON mirror on disk, the artifact files in the storage directory, and   *)
(* the tool calls that operate on them.  Every async method is cut at its  *)
(* await points; a call's record holds its local variables and its         *)
(* position.                                                               *)
(*                                                                         *)
(* The text functions of PdfReader (extractSections, searchInPaper) and    *)
(* the derivation of an artifact's file name, each applied to inputs drawn *)
(* from bounded sets (variable eval), and the rate limiter in front of the *)
(* arXiv API under overlapping tool calls (variable rate).                 *)
(*                                                                         *)
(* The start of the server, where the load of the catalog runs beside the  *)
(* first tool calls (SpecBoot; variable eval holds the load's position).   *)
(***************************************************************************)
EXTENDS Integers, Sequences, FiniteSets, TLC

VARIABLES metadata, disk, files, clock, calls, eval, rate

vars == <<metadata, disk, files, clock, calls, eval, rate>>

----------------------------------------------------------------------------
(* Bounds of the model *)

\* downloadDate values: the clock stops new downloads once it reaches this
MaxClock == 2

\* number of tool calls that may be in flight at once in SpecConc
NumProcs == 2

\* number of lines of the texts handed to extractSections
MaxLines == 3

\* length of the generated section bodies handed to searchInPaper
MaxBody == 3

\* length of the generated titles that file names are derived from
MaxTitle == 3

\* seconds of server time over which the requests to the arXiv API are
\* followed
MaxSeconds == 5

\* matches collected for one section before the model stops following the
\* while loop of searchInPaper
MaxMatches == 4

----------------------------------------------------------------------------
(* Inputs *)

\* arXiv identifiers handed to the tools (old style with a slash, new style)
Ids == { <<"h", "/", "1">>, <<"2">> }

\* the title the metadata lookup supplies for each identifier
TitleOf(id) == IF id = <<"2">> THEN <<"U">> ELSE <<"T", " ", ":">>

\* byte sizes of the fetched PDF bodies
Sizes == {1000, 2048}

SeqProcs == {1}
Procs == 1..NumProcs

----------------------------------------------------------------------------
(* fileUtils *)

IllegalChars == {"<", ">", ":", "\"", "/", "\\", "|", "?", "*"}
WhiteSpace == {" ", "\t", "\n", "\r"}
MaxFilenameLen == 200

Min(a, b) == IF a < b THEN a ELSE b

\* .replace(/[<>:"/\\|?*]/g, '_')
ReplaceIllegal(s) == [i \in 1..Len(s) |-> IF s[i] \in IllegalChars THEN "_" ELSE s[i]]

\* the characters of s that are not marked as dropped, in their order
Dropped == "dropped"
Kept(s) == SelectSeq(s, LAMBDA c : c # Dropped)

\* .replace(/\s+/g, '_'): every maximal run of whitespace becomes one underscore
CollapseSpace(s) ==
    Kept([i \in 1..Len(s) |->
            IF s[i] \notin WhiteSpace THEN s[i]
            ELSE IF i < Len(s) /\ s[i + 1] \in WhiteSpace THEN Dropped ELSE "_"])

\* .replace(/_{2,}/g, '_')
CollapseUnderscore(s) ==
    Kept([i \in 1..Len(s) |->
            IF s[i] = "_" /\ i < Len(s) /\ s[i + 1] = "_" THEN Dropped ELSE s[i]])

sanitizeFilename(filename) ==
    LET s == CollapseUnderscore(CollapseSpace(ReplaceIllegal(filename)))
    IN  SubSeq(s, 1, Min(Len(s), MaxFilenameLen))

\* arxivId.replace('/', '_'): a string pattern replaces the first occurrence only
RECURSIVE ReplaceFirstSlash(_)
ReplaceFirstSlash(s) ==
    IF s = <<>> THEN <<>>
    ELSE IF s[1] = "/" THEN <<"_">> \o Tail(s)
         ELSE <<s[1]>> \o ReplaceFirstSlash(Tail(s))

\* the artifact's path inside STORAGE_DIR (the directory prefix is constant)
FilePath(arxivId, title) ==
    ReplaceFirstSlash(arxivId) \o <<"_">> \o sanitizeFilename(title) \o <<".pdf">>

\* fs.access(path) resolves
AccessOk(path) == path \in DOMAIN files

\* getFileSize: stats.size, or 0 when stat fails
getFileSize(fs, path) == IF path \in DOMAIN fs THEN fs[path] ELSE 0

WriteFile(fs, path, size) == [q \in DOMAIN fs \cup {path} |-> IF q = path THEN size ELSE fs[q]]
Unlink(fs, path) == [q \in DOMAIN fs \ {path} |-> fs[q]]

----------------------------------------------------------------------------
(* The metadata Map: entries in insertion order, keyed by paper id *)

NoPaper == [id |-> <<>>]

\* metadata.json: absent (readJsonFile returns null), or the serialized Map
NoFile == [present |-> FALSE, data |-> <<>>]
JsonFile(m) == [present |-> TRUE, data |-> m]

RECURSIVE MapGet(_, _)
MapGet(m, id) ==
    IF m = <<>> THEN NoPaper
    ELSE IF m[1].id = id THEN m[1] ELSE MapGet(Tail(m), id)

MapHas(m, id) == \E i \in 1..Len(m) : m[i].id = id

\* (mutation) the catalog is kept as a list that set only appends to
MapSet_Append(m, paper) == Append(m, paper)

\* Map.set: an existing key keeps its position, a new key goes last
MapSet(m, paper) ==
    IF MapHas(m, paper.id)
    THEN [i \in 1..Len(m) |-> IF m[i].id = paper.id THEN paper ELSE m[i]]
    ELSE Append(m, paper)

RECURSIVE MapDelete(_, _)
MapDelete(m, id) ==
    IF m = <<>> THEN <<>>
    ELSE IF m[1].id = id THEN MapDelete(Tail(m), id)
         ELSE <<m[1]>> \o MapDelete(Tail(m), id)

MapKeys(m) == {m[i].id : i \in 1..Len(m)}

\* loadMetadata: the Map is replaced only when the file was read
loadMetadata(d) == IF d.present THEN d.data ELSE <<>>

----------------------------------------------------------------------------
(* Calls *)

NoStats == [totalPapers |-> 0, totalSize |-> 0]

IdleCall ==
    [ pc |-> "idle", op |-> "none", arxivId |-> <<>>, title |-> <<>>,
      \* locals of the handlers
      existing |-> NoPaper, response |-> "none", buffer |-> 0,
      downloadedPaper |-> NoPaper, paper |-> NoPaper, papers |-> <<>>,
      seen |-> {}, pending |-> <<>>,
      \* what the call returned or threw, and the last error it logged
      outcome |-> "none", log |-> "none",
      ret |-> NoPaper, deleted |-> FALSE, stats |-> NoStats,
      \* the I/O the call has done: fetches, artifact writes, catalog writes
      fetches |-> 0, fileWrites |-> 0, catalogWrites |-> 0,
      \* list: entries dropped so far, and the ids whose file was missing
      \* when the call began
      dropped |-> 0, missing0 |-> {},
      \* the tool that was called, the papers its metadata lookup returned,
      \* the class of the error it threw, and how often it called
      \* storageManager.downloadPaper and parsePdf
      tool |-> "none", lookup |-> <<>>, kind |-> "none",
      storeCalls |-> 0, decodes |-> 0 ]

Free(p) == calls[p].pc \in {"idle", "done"}

\* no section text is being processed, no request to the arXiv API is pending
NoEval == [fn |-> "none"]
NoRate == [on |-> FALSE]

\* the store after construction
StoreInit ==
    /\ metadata = <<>>
    /\ disk = NoFile
    /\ files = <<>>
    /\ clock = 0
    /\ calls = [p \in Procs |-> IdleCall]

Init ==
    /\ StoreInit
    /\ eval = NoEval
    /\ rate = NoRate

----------------------------------------------------------------------------
(* Helpers shared by the handlers *)

Set(p, c) == calls' = [calls EXCEPT ![p] = c]

\* a fresh call record for operation op
NewCall(op) == [IdleCall EXCEPT !.pc = "run", !.op = op]

\* the locals of a settled call are gone; what it returned or threw stays
Settle(c) == [c EXCEPT !.pc = "done", !.buffer = 0, !.seen = {}, !.pending = <<>>,
                       !.paper = IF c.op = "delete" THEN @ ELSE NoPaper]
Return(c) == [Settle(c) EXCEPT !.outcome = "ok"]
Throw(c, what) == [Settle(c) EXCEPT !.outcome = "error", !.log = what, !.kind = "Error"]

\* throw new ValidationError(...)
ThrowValidation(c, what) == [Throw(c, what) EXCEPT !.kind = "ValidationError"]

\* saveMetadata up to its await: the Map is serialized synchronously, the
\* write of the file is pending
saveMetadata(c, m) == [c EXCEPT !.pc = "save", !.pending = m]

\* the iterators of the running list calls after the Map became m: an id that
\* left the Map and is set again later is appended, and visited again
Forget(cs, m) == [q \in DOMAIN cs |-> [cs[q] EXCEPT !.seen = @ \cap MapKeys(m)]]

InFlightDownloads == Cardinality({q \in Procs : calls[q].op = "download" /\ ~Free(q)})

----------------------------------------------------------------------------
(* StorageManager.downloadPaper *)

\* (mutation) the response status is not looked at
FetchFailed_Unchecked(ok) == FALSE

\* line 67: if (!response.ok) throw
FetchFailed(ok) == ~ok

\* (mutation) the early return is missing: every acquire downloads again
ReuseExisting_Never(existing) == FALSE

\* lines 50-61: the entry is returned as it is when its file can be accessed
ReuseExisting(existing) == existing # NoPaper /\ AccessOk(existing.filePath)

\* lines 84-93: the new metadata entry
NewPaper(c, fileSize, now) ==
    [ id |-> c.arxivId, title |-> c.title, downloadDate |-> now,
      filePath |-> FilePath(c.arxivId, c.title), fileSize |-> fileSize ]

\* lines 48-61 up to the first await, for the call record c
EnterDownload(c, id) ==
    LET existing == MapGet(metadata, id)
        d == [c EXCEPT !.op = "download", !.arxivId = id, !.title = TitleOf(id),
                       !.existing = existing, !.storeCalls = @ + 1]
    IN  [d EXCEPT !.pc = IF existing # NoPaper THEN "dl_access" ELSE "dl_fetch"]

\* storageManager.downloadPaper is called with the id and title of a paper,
\* the id one of ids
BeginDownloadOf(p, ids) ==
    /\ Free(p)
    /\ clock + InFlightDownloads < MaxClock
    /\ \E id \in ids : Set(p, EnterDownload(NewCall("download"), id))
    /\ UNCHANGED <<metadata, disk, files, clock, eval, rate>>

BeginDownload(p) == BeginDownloadOf(p, Ids)

\* lines 53-60: await fs.access(existing.filePath)
DlAccess(p) ==
    /\ calls[p].pc = "dl_access"
    /\ LET c == calls[p]
       IN  IF ReuseExisting(c.existing)
           THEN Set(p, Return([c EXCEPT !.ret = c.existing]))
           ELSE Set(p, [c EXCEPT !.pc = "dl_fetch"])
    /\ UNCHANGED <<metadata, disk, files, clock, eval, rate>>

\* lines 65-71: await fetch(pdfUrl), the ok test, await response.buffer()
DlFetch(p) ==
    /\ calls[p].pc = "dl_fetch"
    /\ \E ok \in BOOLEAN, size \in Sizes :
         LET c == [calls[p] EXCEPT !.fetches = @ + 1,
                                   !.response = IF ok THEN "ok" ELSE "not ok"]
         IN  IF FetchFailed(ok)
             THEN Set(p, Throw(c, "fetch"))
             ELSE Set(p, [c EXCEPT !.pc = "dl_write", !.buffer = size])
    /\ UNCHANGED <<metadata, disk, files, clock, eval, rate>>

\* lines 74-78: await fs.writeFile(filePath, buffer)
DlWrite(p) ==
    /\ calls[p].pc = "dl_write"
    /\ LET c == calls[p]
           path == FilePath(c.arxivId, c.title)
       IN  \E ok \in BOOLEAN :
             IF ok
             THEN /\ files' = WriteFile(files, path, c.buffer)
                  /\ Set(p, [c EXCEPT !.pc = "dl_stat", !.fileWrites = @ + 1])
             ELSE /\ files' = files
                  /\ Set(p, Throw(c, "writeFile"))
    /\ UNCHANGED <<metadata, disk, clock, eval, rate>>

\* lines 81-97: await getFileSize, build the entry, metadata.set, saveMetadata
DlStat(p) ==
    /\ calls[p].pc = "dl_stat"
    /\ LET c == calls[p]
           downloadedPaper == NewPaper(c, getFileSize(files, FilePath(c.arxivId, c.title)), clock)
       IN  /\ metadata' = MapSet(metadata, downloadedPaper)
           /\ Set(p, saveMetadata([c EXCEPT !.downloadedPaper = downloadedPaper], metadata'))
    /\ clock' = clock + 1
    /\ UNCHANGED <<disk, files, eval, rate>>

----------------------------------------------------------------------------
(* StorageManager.listDownloadedPapers and getStorageStats *)

RECURSIVE SumSizes(_)
SumSizes(papers) ==
    IF papers = <<>> THEN 0 ELSE papers[1].fileSize + SumSizes(Tail(papers))

\* (mutation) reduce without its initial value: the first paper is the seed
StorageStats_NoSeed(papers) ==
    [totalPapers |-> Len(papers),
     totalSize |-> IF papers = <<>> THEN 0 ELSE SumSizes(Tail(papers))]

\* getStorageStats lines 155-161 (formattedSize is a rendering of totalSize)
StorageStats(papers) == [totalPapers |-> Len(papers), totalSize |-> SumSizes(papers)]

\* line 124: if (papers.length !== this.metadata.size)
NeedsSave(papers, m) == Len(papers) # Len(m)

\* (mutation) the entry of a missing file is skipped but stays in the Map
DropMissing_Keep(m, id) == m

\* lines 117-119: the entry of a missing file leaves the Map
DropMissing(m, id) == MapDelete(m, id)

\* index.ts lines 1137-1144 and 1166-1173: papers.find(p => p.id ===
\* args.arxivId); without a paper the tool throws, with one it goes on to
\* await pdfReader.readPaperContent
FindPaper(c) ==
    LET hits == {i \in 1..Len(c.papers) : c.papers[i].id = c.arxivId}
    IN  IF hits = {}
        THEN ThrowValidation(c, "not downloaded")
        ELSE [c EXCEPT !.pc = "rd_read", !.paper = c.papers[CHOOSE i \in hits : \A j \in hits : i <= j]]

\* line 128, then lines 155-161 when the caller is getStorageStats, or the
\* lookup of the paper when the caller is a tool that reads it
ListReturn(c) ==
    IF c.op \in {"read", "search"}
    THEN FindPaper(c)
    ELSE Return([c EXCEPT !.stats = IF c.op = "stats" THEN StorageStats(c.papers) ELSE NoStats])

\* the for-of step: the next entry the iterator has not passed, then its
\* fs.access; after the last entry the test of line 124
Advance(c, m) ==
    LET rest == SelectSeq(m, LAMBDA e : e.id \notin c.seen)
    IN  IF rest # <<>>
        THEN [c EXCEPT !.pc = "li_access", !.paper = rest[1]]
        ELSE IF NeedsSave(c.papers, m) THEN saveMetadata(c, m) ELSE ListReturn(c)

MissingNow(m) == {id \in MapKeys(m) : ~AccessOk(MapGet(m, id).filePath)}

\* list_downloaded_papers (op "list") or get_storage_stats (op "stats")
BeginList(p) ==
    /\ Free(p)
    /\ \E op \in {"list", "stats"} :
         Set(p, Advance([NewCall(op) EXCEPT !.missing0 = MissingNow(metadata)], metadata))
    /\ UNCHANGED <<metadata, disk, files, clock, eval, rate>>

\* lines 112-120: await fs.access(paper.filePath), push or delete, next entry
LiAccess(p) ==
    /\ calls[p].pc = "li_access"
    /\ LET c == calls[p]
       IN  IF AccessOk(c.paper.filePath)
           THEN /\ metadata' = metadata
                /\ Set(p, Advance([c EXCEPT !.papers = Append(@, c.paper),
                                            !.seen = @ \cup {c.paper.id}], metadata))
           ELSE /\ metadata' = DropMissing(metadata, c.paper.id)
                /\ calls' = [Forget(calls, metadata') EXCEPT
                               ![p] = Advance([c EXCEPT
                                   !.seen = (@ \cup {c.paper.id}) \cap MapKeys(metadata'),
                                   !.dropped = @ + 1], metadata')]
    /\ UNCHANGED <<disk, files, clock, eval, rate>>

----------------------------------------------------------------------------
(* StorageManager.deletePaper *)

\* (mutation) the entry is deleted before the outcome of unlink is known
AfterUnlink_DeleteFirst(m, id, unlinked) == MapDelete(m, id)

\* lines 138-139: metadata.delete runs only after unlink resolved
AfterUnlink(m, id, unlinked) == IF unlinked THEN MapDelete(m, id) ELSE m

\* (mutation) saveMetadata is not awaited: true whatever the write did
DeleteResult_Always(saved) == TRUE

\* lines 140-146: true after saveMetadata resolved, false from the catch
DeleteResult(saved) == saved

\* lines 132-135, for an id of ids
BeginDeleteOf(p, ids) ==
    /\ Free(p)
    /\ \E id \in ids :
         LET paper == MapGet(metadata, id)
             c == [NewCall("delete") EXCEPT !.arxivId = id, !.paper = paper]
         IN  IF paper = NoPaper
             THEN Set(p, Return([c EXCEPT !.deleted = FALSE]))
             ELSE Set(p, [c EXCEPT !.pc = "del_unlink"])
    /\ UNCHANGED <<metadata, disk, files, clock, eval, rate>>

BeginDelete(p) == BeginDeleteOf(p, Ids)

\* lines 138-146: await fs.unlink(paper.filePath); a missing file rejects with
\* ENOENT, a present one is removed or rejects (EPERM)
DelUnlink(p) ==
    /\ calls[p].pc = "del_unlink"
    /\ LET c == calls[p]
       IN  \E err \in (IF AccessOk(c.paper.filePath) THEN {"none", "EPERM"} ELSE {"ENOENT"}) :
             /\ files' = IF err = "none" THEN Unlink(files, c.paper.filePath) ELSE files
             /\ metadata' = AfterUnlink(metadata, c.arxivId, err = "none")
             /\ LET cs == Forget(calls, metadata')
                IN  calls' = [cs EXCEPT ![p] =
                        IF err = "none"
                        THEN saveMetadata(cs[p], metadata')
                        ELSE Return([cs[p] EXCEPT !.deleted = FALSE, !.log = err])]
    /\ UNCHANGED <<disk, clock, eval, rate>>

----------------------------------------------------------------------------
(* The tools download_paper, read_paper_content and search_in_paper *)

\* args.arxivId is missing
NoArg == <<>>

\* what getPaperById resolves to: no paper, a paper without a PDF link, a
\* paper with one
HtmlLink == [type |-> "text/html"]
PdfLink == [type |-> "application/pdf"]
Lookups == { <<>>, <<[links |-> <<HtmlLink>>]>>, <<[links |-> <<HtmlLink, PdfLink>>]>> }

\* (mutation) the first paper is taken whatever links it has
HasPdfLink_Unchecked(paper) == TRUE

\* index.ts lines 1045-1049: paper.links.find(l => l.type === 'application/pdf')
HasPdfLink(paper) == \E i \in 1..Len(paper.links) : paper.links[i].type = "application/pdf"

\* index.ts lines 1031-1037: the test of the argument, then await getPaperById
DownloadPaper(p) ==
    /\ Free(p)
    /\ \E arxivId \in Ids \cup {NoArg} :
         LET c == [NewCall("download_paper") EXCEPT !.tool = "download_paper",
                                                    !.arxivId = arxivId]
         IN  IF arxivId = NoArg
             THEN Set(p, ThrowValidation(c, "arxivId is required"))
             ELSE Set(p, [c EXCEPT !.pc = "dp_lookup"])
    /\ UNCHANGED <<metadata, disk, files, clock, eval, rate>>

\* index.ts lines 1037-1061: getPaperById settles; the tests of the papers
\* and of the PDF link, then the call of storageManager.downloadPaper
DpLookup(p) ==
    /\ calls[p].pc = "dp_lookup"
    /\ \E failed \in BOOLEAN, papers \in Lookups :
         LET c == [calls[p] EXCEPT !.lookup = IF failed THEN <<>> ELSE papers]
         IN  IF failed
             THEN Set(p, Throw(c, "lookup"))
             ELSE IF papers = <<>>
             THEN Set(p, ThrowValidation(c, "not found"))
             ELSE IF ~HasPdfLink(papers[1])
             THEN Set(p, ThrowValidation(c, "no PDF link"))
             ELSE /\ clock + InFlightDownloads < MaxClock
                  /\ Set(p, EnterDownload(c, c.arxivId))
    /\ UNCHANGED <<metadata, disk, files, clock, eval, rate>>

\* index.ts lines 1131-1136 and 1160-1165: the test of the arguments, then
\* await storageManager.listDownloadedPapers()
ReadPaper(p) ==
    /\ Free(p)
    /\ \E op \in {"read", "search"}, arxivId \in Ids \cup {NoArg}, searchTerm \in BOOLEAN :
         LET c == [NewCall(op) EXCEPT
                      !.tool = IF op = "read" THEN "read_paper_content" ELSE "search_in_paper",
                      !.arxivId = arxivId, !.missing0 = MissingNow(metadata)]
         IN  IF arxivId = NoArg \/ (op = "search" /\ ~searchTerm)
             THEN Set(p, ThrowValidation(c, "argument is required"))
             ELSE Set(p, Advance(c, metadata))
    /\ UNCHANGED <<metadata, disk, files, clock, eval, rate>>

\* pdfReader.readPaperContent lines 7-25: readFile and parsePdf, either of
\* which may fail; extractSections and searchInPaper run on the decoded text
RdRead(p) ==
    /\ calls[p].pc = "rd_read"
    /\ LET c == calls[p]
       IN  IF ~AccessOk(c.paper.filePath)
           THEN Set(p, Throw(c, "readFile"))
           ELSE \E parsed \in BOOLEAN :
                  LET d == [c EXCEPT !.decodes = @ + 1]
                  IN  IF parsed THEN Set(p, Return([d EXCEPT !.ret = c.paper]))
                      ELSE Set(p, Throw(d, "parsePdf"))
    /\ UNCHANGED <<metadata, disk, files, clock, eval, rate>>

----------------------------------------------------------------------------
(* writeJsonFile: the pending write of metadata.json settles *)

WriteJsonDone(p) ==
    /\ calls[p].pc = "save"
    /\ \E ok \in BOOLEAN :
         LET c == [calls[p] EXCEPT !.catalogWrites = IF ok THEN @ + 1 ELSE @]
         IN  /\ disk' = IF ok THEN JsonFile(c.pending) ELSE disk
             /\ Set(p, CASE c.op = "download" ->
                              IF ok THEN Return([c EXCEPT !.ret = c.downloadedPaper])
                                    ELSE Throw(c, "writeJson")
                         [] c.op = "delete" ->
                              Return([c EXCEPT !.deleted = DeleteResult(ok),
                                               !.log = IF ok THEN "none" ELSE "writeJson"])
                         [] OTHER ->
                              IF ok THEN ListReturn(c) ELSE Throw(c, "writeJson"))
    /\ UNCHANGED <<metadata, files, clock, eval, rate>>

----------------------------------------------------------------------------
(* Environment *)

\* an artifact is removed from the storage directory behind the server's back
EnvDelete ==
    /\ \E path \in DOMAIN files : files' = Unlink(files, path)
    /\ UNCHANGED <<metadata, disk, clock, calls, eval, rate>>

\* the process ends and a new one runs initialize(): every call in flight is
\* gone and the Map is loaded from metadata.json
Restart ==
    /\ metadata' = loadMetadata(disk)
    /\ calls' = [p \in Procs |-> IdleCall]
    /\ UNCHANGED <<disk, files, clock, eval, rate>>

----------------------------------------------------------------------------
(* Strings and regular expressions.  A string is a sequence of characters;  *)
(* a regular expression is a sequence of items, each a character class     *)
(* that is matched once or, starred, as often as possible.                 *)

UpperCase == <<"A", "B", "C", "D", "E", "F", "G", "H", "I", "J", "K", "L", "M",
               "N", "O", "P", "Q", "R", "S", "T", "U", "V", "W", "X", "Y", "Z">>
LowerCase == <<"a", "b", "c", "d", "e", "f", "g", "h", "i", "j", "k", "l", "m",
               "n", "o", "p", "q", "r", "s", "t", "u", "v", "w", "x", "y", "z">>
ToLower == [c \in {UpperCase[i] : i \in 1..26} |->
               LowerCase[CHOOSE i \in 1..26 : UpperCase[i] = c]]
ToUpper == [c \in {LowerCase[i] : i \in 1..26} |->
               UpperCase[CHOOSE i \in 1..26 : LowerCase[i] = c]]

\* the characters that equal c under the i flag
BothCases(c) ==
    {c} \cup (IF c \in DOMAIN ToLower THEN {ToLower[c]} ELSE {})
        \cup (IF c \in DOMAIN ToUpper THEN {ToUpper[c]} ELSE {})

Max(a, b) == IF a > b THEN a ELSE b
SetMax(S) == CHOOSE x \in S : \A y \in S : y <= x
SetMin(S) == CHOOSE x \in S : \A y \in S : x <= y

\* the number of characters of s from position i on that are in class cls
RECURSIVE RunLength(_, _, _)
RunLength(s, i, cls) ==
    IF i <= Len(s) /\ s[i] \in cls THEN 1 + RunLength(s, i + 1, cls) ELSE 0

\* the position after the match of re that starts at position i of s, 0 when
\* there is none; a starred item takes the longest run that lets the rest
\* of the expression match (greedy, with backtracking)
RECURSIVE MatchEnd(_, _, _)
MatchEnd(re, s, i) ==
    IF re = <<>> THEN i
    ELSE IF ~re[1].star
         THEN IF i <= Len(s) /\ s[i] \in re[1].cls
              THEN MatchEnd(Tail(re), s, i + 1)
              ELSE 0
         ELSE LET ends == {j \in 0..RunLength(s, i, re[1].cls) :
                              MatchEnd(Tail(re), s, i + j) # 0}
              IN  IF ends = {} THEN 0 ELSE MatchEnd(Tail(re), s, i + SetMax(ends))

\* RegExp.prototype.test without the g flag: a match starts somewhere in s
Test(re, s) == \E i \in 1..(Len(s) + 1) : MatchEnd(re, s, i) # 0

\* a word under the i flag, \s* and \n as regular expressions
Word(w) == [i \in 1..Len(w) |-> [cls |-> BothCases(w[i]), star |-> FALSE]]
SpaceStar == <<[cls |-> WhiteSpace, star |-> TRUE]>>
NewLine == <<[cls |-> {"\n"}, star |-> FALSE]>>
Chars(w) == [i \in 1..Len(w) |-> [cls |-> {w[i]}, star |-> FALSE]]

\* String.prototype.split('\n')
RECURSIVE Split(_)
Split(s) ==
    IF \A i \in 1..Len(s) : s[i] # "\n" THEN <<s>>
    ELSE LET k == SetMin({i \in 1..Len(s) : s[i] = "\n"})
         IN  <<SubSeq(s, 1, k - 1)>> \o Split(SubSeq(s, k + 1, Len(s)))

\* Array.prototype.join('\n')
RECURSIVE Join(_)
Join(lines) ==
    IF lines = <<>> THEN <<>>
    ELSE IF Len(lines) = 1 THEN lines[1]
         ELSE lines[1] \o <<"\n">> \o Join(Tail(lines))

\* String.prototype.trim
Trim(s) ==
    LET keep == {i \in 1..Len(s) : s[i] \notin WhiteSpace}
    IN  IF keep = {} THEN <<>> ELSE SubSeq(s, SetMin(keep), SetMax(keep))

----------------------------------------------------------------------------
(* PdfReader.extractSections *)

\* the words of the patterns of lines 31-37 and 80
Words ==
    [ abstract |-> <<"a", "b", "s", "t", "r", "a", "c", "t">>,
      summary |-> <<"s", "u", "m", "m", "a", "r", "y">>,
      introduction |-> <<"i", "n", "t", "r", "o", "d", "u", "c", "t", "i", "o", "n">>,
      methodology |-> <<"m", "e", "t", "h", "o", "d", "o", "l", "o", "g", "y">>,
      methods |-> <<"m", "e", "t", "h", "o", "d", "s">>,
      approach |-> <<"a", "p", "p", "r", "o", "a", "c", "h">>,
      results |-> <<"r", "e", "s", "u", "l", "t", "s">>,
      findings |-> <<"f", "i", "n", "d", "i", "n", "g", "s">>,
      experiments |-> <<"e", "x", "p", "e", "r", "i", "m", "e", "n", "t", "s">>,
      discussion |-> <<"d", "i", "s", "c", "u", "s", "s", "i", "o", "n">>,
      analysis |-> <<"a", "n", "a", "l", "y", "s", "i", "s">>,
      conclusion |-> <<"c", "o", "n", "c", "l", "u", "s", "i", "o", "n">>,
      conclusions |-> <<"c", "o", "n", "c", "l", "u", "s", "i", "o", "n", "s">>,
      references |-> <<"r", "e", "f", "e", "r", "e", "n", "c", "e", "s">>,
      bibliography |-> <<"b", "i", "b", "l", "i", "o", "g", "r", "a", "p", "h", "y">>,
      keywords |-> <<"k", "e", "y", "w", "o", "r", "d", "s">> ]

\* lines 30-38: the heading patterns of the canonical sections, in order
sectionPatterns ==
    << [name |-> "abstract",
        patterns |-> << Word(Words.abstract) \o SpaceStar \o NewLine,
                        Word(Words.summary) \o SpaceStar \o NewLine >>],
       [name |-> "introduction",
        patterns |-> << Word(Words.introduction) \o SpaceStar \o NewLine,
                        NewLine \o Chars(<<"1", ".">>) \o SpaceStar \o Word(Words.introduction) >>],
       [name |-> "methodology",
        patterns |-> << Word(Words.methodology) \o SpaceStar \o NewLine,
                        Word(Words.methods) \o SpaceStar \o NewLine,
                        Word(Words.approach) \o SpaceStar \o NewLine >>],
       [name |-> "results",
        patterns |-> << Word(Words.results) \o SpaceStar \o NewLine,
                        Word(Words.findings) \o SpaceStar \o NewLine,
                        Word(Words.experiments) \o SpaceStar \o NewLine >>],
       [name |-> "discussion",
        patterns |-> << Word(Words.discussion) \o SpaceStar \o NewLine,
                        Word(Words.analysis) \o SpaceStar \o NewLine >>],
       [name |-> "conclusion",
        patterns |-> << Word(Words.conclusion) \o SpaceStar \o NewLine,
                        Word(Words.conclusions) \o SpaceStar \o NewLine,
                        Word(Words.summary) \o SpaceStar \o NewLine >>],
       [name |-> "references",
        patterns |-> << Word(Words.references) \o SpaceStar \o NewLine,
                        Word(Words.bibliography) \o SpaceStar \o NewLine >>] >>

\* currentSection is null
NoSection == "null"

\* (mutation) the patterns are tested on the line with its line end
FoundSection_WithLineEnd(line) ==
    LET hits == {k \in 1..Len(sectionPatterns) :
                    \E n \in 1..Len(sectionPatterns[k].patterns) :
                        Test(sectionPatterns[k].patterns[n], line \o <<"\n">>)}
    IN  IF hits = {} THEN NoSection ELSE sectionPatterns[SetMin(hits)].name

\* lines 50-66: the first section, in the order of sectionPatterns, one of
\* whose patterns matches the line
FoundSection(line) ==
    LET hits == {k \in 1..Len(sectionPatterns) :
                    \E n \in 1..Len(sectionPatterns[k].patterns) :
                        Test(sectionPatterns[k].patterns[n], line)}
    IN  IF hits = {} THEN NoSection ELSE sectionPatterns[SetMin(hits)].name

\* the sections object: properties in the order they were first assigned.
\* Each property carries, next to its body, the positions of the text the
\* body was taken from (first and last character; an empty body has none)
ObjHas(o, name) == \E i \in 1..Len(o) : o[i].name = name
ObjGet(o, name) == o[CHOOSE i \in 1..Len(o) : o[i].name = name].body
ObjSet(o, name, body, span) ==
    LET e == [name |-> name, body |-> body, span |-> span]
    IN  IF ObjHas(o, name)
        THEN [i \in 1..Len(o) |-> IF o[i].name = name THEN e ELSE o[i]]
        ELSE Append(o, e)

\* the positions that raw.trim() occupies when raw begins at position from
TrimSpan(raw, from) ==
    LET lead == RunLength(raw, 1, WhiteSpace)
    IN  <<from + lead, from + lead + Len(Trim(raw)) - 1>>
ObjKeys(o) == {o[i].name : i \in 1..Len(o)}

\* lines 54-56 and 74-76: the section that is open is stored when it has
\* collected at least one line
SaveSection(st) ==
    IF st.currentSection # NoSection /\ st.currentContent # <<>>
    THEN ObjSet(st.sections, st.currentSection, Trim(Join(st.currentContent)),
                TrimSpan(Join(st.currentContent), st.from))
    ELSE st.sections

\* lines 45-71: one turn of the loop over the lines; pos is the position of
\* the line in the text, from the position where currentContent begins
ScanLine(st, line) ==
    LET found == FoundSection(line)
        next == st.pos + Len(line) + 1
    IN  IF found # NoSection
        THEN [sections |-> SaveSection(st), currentSection |-> found,
              currentContent |-> <<>>, from |-> next, pos |-> next]
        ELSE IF st.currentSection # NoSection
             THEN [st EXCEPT !.currentContent = Append(@, line), !.pos = next]
             ELSE [st EXCEPT !.pos = next]

RECURSIVE ScanLines(_, _)
ScanLines(st, lines) ==
    IF lines = <<>> THEN st ELSE ScanLines(ScanLine(st, lines[1]), Tail(lines))

\* line 80, the lookahead (?=\n\s*\n|\nintroduction|\n1\.|keywords) under
\* the i flag
AbstractEnds ==
    << NewLine \o SpaceStar \o NewLine,
       NewLine \o Word(Words.introduction),
       NewLine \o Chars(<<"1", ".">>),
       Word(Words.keywords) >>

LookingAt(text, e) ==
    \E n \in 1..Len(AbstractEnds) : MatchEnd(AbstractEnds[n], text, e) # 0

\* (mutation) (.+) instead of (.+?): the capture runs to the last end
CaptureEnd_Greedy(ends) == SetMax(ends)

\* line 80, (.+?): of the positions the lookahead accepts, the first
CaptureEnd(ends) == SetMin(ends)

\* the capture of the match of abstract[:\s]*(.+?)(?=...) that starts at
\* position i: [:\s]* gives back characters only when nothing else matches,
\* (.+?) is the shortest text of at least one character (the s flag lets it
\* cross line ends) that the lookahead follows
AbstractAt(text, i) ==
    LET j0 == MatchEnd(Word(Words.abstract), text, i)
        n == RunLength(text, j0, WhiteSpace \cup {":"})
        ok(k) == {e \in (j0 + k + 1)..(Len(text) + 1) : LookingAt(text, e)}
        ks == {k \in 0..n : ok(k) # {}}
    IN  IF j0 = 0 \/ ks = {} THEN [found |-> FALSE, capture |-> <<>>, index |-> 0]
        ELSE LET k == SetMax(ks)
             IN  [found |-> TRUE, index |-> j0 + k,
                  capture |-> SubSeq(text, j0 + k, CaptureEnd(ok(k)) - 1)]

\* text.match(...): the match at the leftmost position that has one
AbstractMatch(text) ==
    LET starts == {i \in 1..Len(text) : AbstractAt(text, i).found}
    IN  IF starts = {} THEN [found |-> FALSE, capture |-> <<>>, index |-> 0]
        ELSE AbstractAt(text, SetMin(starts))

\* (mutation) the abstract is assigned whether or not the sweep matched
AbstractFallback_Unguarded(sections, text) ==
    ObjSet(sections, "abstract", Trim(AbstractMatch(text).capture),
           TrimSpan(AbstractMatch(text).capture, AbstractMatch(text).index))

\* lines 79-84: the sweep for an abstract when the loop stored none (or an
\* empty one)
AbstractFallback(sections, text) ==
    IF (~ObjHas(sections, "abstract") \/ ObjGet(sections, "abstract") = <<>>)
       /\ AbstractMatch(text).found
    THEN ObjSet(sections, "abstract", Trim(AbstractMatch(text).capture),
                TrimSpan(AbstractMatch(text).capture, AbstractMatch(text).index))
    ELSE sections

\* lines 41-76: the loop over the lines and the save of the last section
LineScan(text) ==
    SaveSection(ScanLines([sections |-> <<>>, currentSection |-> NoSection,
                           currentContent |-> <<>>, from |-> 1, pos |-> 1], Split(text)))

\* lines 27-87
extractSections(text) == AbstractFallback(LineScan(text), text)

----------------------------------------------------------------------------
(* Section extraction applied to a text *)

\* the text of the segmentation example: Abstract, Foo bar., Introduction,
\* Baz qux., one per line
Sample ==
    [ Abstract |-> <<"A", "b", "s", "t", "r", "a", "c", "t">>,
      Introduction |-> <<"I", "n", "t", "r", "o", "d", "u", "c", "t", "i", "o", "n">>,
      Summary |-> <<"S", "u", "m", "m", "a", "r", "y">>,
      Foo |-> <<"F", "o", "o", " ", "b", "a", "r", ".">>,
      Baz |-> <<"B", "a", "z", " ", "q", "u", "x", ".">>,
      Survey |-> <<"A", "n", " ", "I", "n", "t", "r", "o", "d", "u", "c", "t", "i", "o", "n">> ]
Inline == Sample.Abstract \o <<":", " ">> \o Sample.Foo

ExampleText == Join(<<Sample.Abstract, Sample.Foo, Sample.Introduction, Sample.Baz>>)

\* the lines the texts are made of: headings, bodies, an empty line, an
\* abstract that begins on the line of its label, a line with the word
\* "Introduction" in it
Lines ==
    {Sample.Abstract, Sample.Introduction, Sample.Summary, Sample.Foo, Sample.Baz, <<>>,
     Inline, Sample.Survey}

\* the texts of at most MaxLines lines, and the example
Texts ==
    {ExampleText} \cup
    UNION {{Join(ls) : ls \in [1..n -> Lines]} : n \in 0..MaxLines}

storeVars == <<metadata, disk, files, clock, calls>>

SegInit ==
    /\ StoreInit
    /\ rate = NoRate
    /\ \E text \in Texts :
         eval = [fn |-> "extractSections", text |-> text, done |-> FALSE, sections |-> <<>>]

\* readPaperContent line 15: const sections = this.extractSections(fullText)
Segment ==
    /\ eval.fn = "extractSections" /\ ~eval.done
    /\ eval' = [eval EXCEPT !.done = TRUE, !.sections = extractSections(eval.text)]
    /\ UNCHANGED <<storeVars, rate>>

SegNext == Segment

SpecSeg == SegInit /\ [][SegNext]_vars

----------------------------------------------------------------------------
(* PdfReader.searchInPaper *)

\* lines 111-112: the characters of context kept on each side of a match
ContextRadius == 50

\* String.prototype.substring(a, b) with zero-based a <= b: both ends are
\* clamped to the string
Substring(s, a, b) ==
    SubSeq(s, Max(0, Min(a, Len(s))) + 1, Max(0, Min(b, Len(s))))

\* args.caseSensitive || false (index.ts line 1172) and the default of the
\* parameter (line 89)
CaseSensitive(arg) == arg = "true"

\* (mutation) the i flag is always set
ItemClass_IgnoreCase(c, caseSensitive) == BothCases(c)

\* line 98: flags 'g' or 'gi'
ItemClass(c, caseSensitive) == IF caseSensitive THEN {c} ELSE BothCases(c)

\* line 99: new RegExp(searchTerm, flags).  A term is a sequence of items, a
\* character or a character followed by a star
SearchRegex(searchTerm, caseSensitive) ==
    [i \in 1..Len(searchTerm) |->
        [cls |-> ItemClass(searchTerm[i].c, caseSensitive), star |-> searchTerm[i].star]]

\* searchTerm.length: the characters of the term as it was typed
RECURSIVE TermLength(_)
TermLength(searchTerm) ==
    IF searchTerm = <<>> THEN 0
    ELSE (IF searchTerm[1].star THEN 2 ELSE 1) + TermLength(Tail(searchTerm))

\* RegExp.prototype.exec with the g flag: the first match that starts at or
\* after lastIndex (zero-based); index and end are zero-based
Exec(re, s, lastIndex) ==
    LET starts == {i \in lastIndex..Len(s) : MatchEnd(re, s, i + 1) # 0}
    IN  IF starts = {} THEN [found |-> FALSE, index |-> 0, end |-> 0]
        ELSE [found |-> TRUE, index |-> SetMin(starts),
              end |-> MatchEnd(re, s, SetMin(starts) + 1) - 1]

\* (mutation) the scan resumes one character after the start of the match
LastIndexAfter_Overlapping(m) == m.index + 1

\* exec leaves lastIndex at the end of the match
LastIndexAfter(m) == m.end

\* (mutation) the length of the term is left out of the end of the window
ContextEnd_NoTerm(sectionContent, index, searchTerm) ==
    Min(Len(sectionContent), index + ContextRadius)

\* lines 111-112
ContextStart(index) == Max(0, index - ContextRadius)
ContextEnd(sectionContent, index, searchTerm) ==
    Min(Len(sectionContent), index + TermLength(searchTerm) + ContextRadius)

\* lines 110-118: the entry pushed for a match
MatchEntry(sectionContent, index, searchTerm) ==
    [ text |-> Substring(sectionContent, ContextStart(index),
                         ContextEnd(sectionContent, index, searchTerm)),
      position |-> index ]

\* (mutation) every section that was scanned is reported
KeepSection_Always(matches) == TRUE

\* line 120: if (matches.length > 0)
KeepSection(matches) == matches # <<>>

\* the sample body and terms of the search example, and a body that is
\* longer than the context window on both sides of its match
Rep(c, n) == [i \in 1..n |-> c]

CatBody == <<"t", "h", "e", " ", "c", "a", "t", " ", "s", "a", "t", " ", "o", "n", " ",
             "t", "h", "e", " ", "m", "a", "t">>
LongBody == Rep("x", 60) \o <<"c", "a", "t">> \o Rep("x", 60)

Literal(w) == [i \in 1..Len(w) |-> [c |-> w[i], star |-> FALSE]]
Starred(c) == <<[c |-> c, star |-> TRUE]>>

SearchChars == {"a", "A", "b"}
Strings(n) == UNION {[1..k -> SearchChars] : k \in 0..n}

\* the section bodies and the terms searched for
Bodies == Strings(MaxBody) \cup {CatBody, LongBody}
Terms ==
    {Literal(w) : w \in Strings(2) \ {<<>>}}
    \cup {Literal(<<"c", "a", "t">>), Literal(<<"C", "A", "T">>)}
    \cup {Starred("a"), Literal(<<"b">>) \o Starred("a")}

\* content.sections: one section, or an abstract and an introduction
SectionMaps ==
    {<<[name |-> "introduction", body |-> b]>> : b \in Bodies}
    \cup {<<[name |-> "abstract", body |-> b1], [name |-> "introduction", body |-> b2]>> :
            b1, b2 \in Strings(1) \cup {<<"a", "a">>}}

SearchInit ==
    /\ StoreInit
    /\ rate = NoRate
    /\ \E sections \in SectionMaps, searchTerm \in Terms,
          caseSensitive \in {"undefined", "false", "true"} :
         eval = [ fn |-> "searchInPaper", sections |-> sections,
                  searchTerm |-> searchTerm, caseSensitive |-> caseSensitive,
                  \* the entry of Object.entries in hand, the regex's
                  \* lastIndex, the matches of the section, the results
                  k |-> 1, lastIndex |-> 0, matches |-> <<>>, results |-> <<>>,
                  done |-> FALSE ]

\* line 103: if (!sectionContent) continue
SkipSection ==
    /\ eval.fn = "searchInPaper" /\ ~eval.done
    /\ eval.k <= Len(eval.sections)
    /\ eval.sections[eval.k].body = <<>>
    /\ eval' = [eval EXCEPT !.k = @ + 1]
    /\ UNCHANGED <<storeVars, rate>>

\* lines 108-118: one turn of the while loop, searchRegex.exec found a match
ExecMatch ==
    /\ eval.fn = "searchInPaper" /\ ~eval.done
    /\ eval.k <= Len(eval.sections)
    /\ eval.sections[eval.k].body # <<>>
    /\ Len(eval.matches) < MaxMatches
    /\ LET sectionContent == eval.sections[eval.k].body
           m == Exec(SearchRegex(eval.searchTerm, CaseSensitive(eval.caseSensitive)),
                     sectionContent, eval.lastIndex)
       IN  /\ m.found
           /\ eval' = [eval EXCEPT
                  !.matches = Append(@, MatchEntry(sectionContent, m.index, eval.searchTerm)),
                  !.lastIndex = LastIndexAfter(m)]
    /\ UNCHANGED <<storeVars, rate>>

\* lines 108 and 120-125: exec returned null (and reset lastIndex), the loop
\* ends and the section is reported when it has matches
ExecNull ==
    /\ eval.fn = "searchInPaper" /\ ~eval.done
    /\ eval.k <= Len(eval.sections)
    /\ eval.sections[eval.k].body # <<>>
    /\ LET sectionContent == eval.sections[eval.k].body
           m == Exec(SearchRegex(eval.searchTerm, CaseSensitive(eval.caseSensitive)),
                     sectionContent, eval.lastIndex)
       IN  /\ ~m.found
           /\ eval' = [eval EXCEPT
                  !.results = IF KeepSection(eval.matches)
                              THEN Append(@, [section |-> eval.sections[eval.k].name,
                                              matches |-> eval.matches])
                              ELSE @,
                  !.matches = <<>>, !.lastIndex = 0, !.k = @ + 1]
    /\ UNCHANGED <<storeVars, rate>>

\* line 127: return results
SearchReturn ==
    /\ eval.fn = "searchInPaper" /\ ~eval.done
    /\ eval.k > Len(eval.sections)
    /\ eval' = [eval EXCEPT !.done = TRUE]
    /\ UNCHANGED <<storeVars, rate>>

SearchNext ==
    \/ SkipSection
    \/ ExecMatch
    \/ ExecNull
    \/ SearchReturn

SpecSearch == SearchInit /\ [][SearchNext]_vars

----------------------------------------------------------------------------
(* ArxivServer.enforceRateLimit and the requests to the arXiv API *)

\* index.ts line 480, in milliseconds
RATE_LIMIT_DELAY == 3000

\* Date.now() when the server starts: far beyond lastRequestTime = 0
StartTime == RATE_LIMIT_DELAY

IdleRequest == [pc |-> "idle", wakeAt |-> 0]

RateInit ==
    /\ StoreInit
    /\ eval = NoEval
    /\ rate = [ on |-> TRUE, now |-> StartTime, lastRequestTime |-> 0,
                \* the times at which a request went out to the API
                sent |-> <<>>,
                request |-> [q \in Procs |-> IdleRequest] ]

\* line 526, then the axios.get of the caller (lines 898, 932, 971, 1006)
SendRequest(r, q) ==
    [r EXCEPT !.lastRequestTime = r.now, !.sent = Append(@, r.now),
              !.request[q] = IdleRequest]

\* lines 520-527 up to the await: a tool call (search_papers,
\* get_paper_by_id, get_recent_papers, search_author, or the lookup of
\* download_paper and analyze_paper) enters enforceRateLimit; without a
\* wait it sets lastRequestTime and sends at once
Enforce(q) ==
    /\ rate.on /\ rate.request[q].pc = "idle"
    /\ LET timeSinceLastRequest == rate.now - rate.lastRequestTime
       IN  rate' = IF timeSinceLastRequest < RATE_LIMIT_DELAY
                   THEN [rate EXCEPT !.request[q] =
                            [pc |-> "wait",
                             wakeAt |-> rate.now + (RATE_LIMIT_DELAY - timeSinceLastRequest)]]
                   ELSE SendRequest(rate, q)
    /\ UNCHANGED <<storeVars, eval>>

\* lines 524-526: the timer fired (not before it was due)
WakeUp(q) ==
    /\ rate.on /\ rate.request[q].pc = "wait"
    /\ rate.now >= rate.request[q].wakeAt
    /\ rate' = SendRequest(rate, q)
    /\ UNCHANGED <<storeVars, eval>>

\* a second passes
Tick ==
    /\ rate.on /\ rate.now < StartTime + MaxSeconds * 1000
    /\ rate' = [rate EXCEPT !.now = @ + 1000]
    /\ UNCHANGED <<storeVars, eval>>

\* the request handler takes a tool call whenever one arrives, also while
\* an earlier one is waiting
RateNext ==
    \/ \E q \in Procs : Enforce(q)
    \/ \E q \in Procs : WakeUp(q)
    \/ Tick

SpecRate == RateInit /\ [][RateNext]_vars

----------------------------------------------------------------------------
(* The file name of an artifact, applied to an identifier and a title *)

\* identifiers: new style, old style, and a string with two slashes
NameIds == { <<"2">>, <<"h", "/", "1">>, <<"a", "/", "b", "/", "c">> }

\* titles: short ones over letters, blanks, underscores and characters that
\* file names must not hold, and one that is longer than MaxFilenameLen
TitleChars == {"T", " ", "\t", ":", "/", "_"}
LongTitle == Rep("a", MaxFilenameLen - 1) \o <<" ", " ", "?", "b">>
NameTitles == UNION {[1..n -> TitleChars] : n \in 0..MaxTitle} \cup {LongTitle}

NameInit ==
    /\ StoreInit
    /\ rate = NoRate
    /\ \E arxivId \in NameIds, title \in NameTitles :
         eval = [ fn |-> "filePath", arxivId |-> arxivId, title |-> title,
                  done |-> FALSE, sanitized |-> <<>>, filename |-> <<>> ]

\* storageManager.ts lines 73-75: const filename = ...
NameFile ==
    /\ eval.fn = "filePath" /\ ~eval.done
    /\ eval' = [eval EXCEPT !.done = TRUE,
                            !.sanitized = sanitizeFilename(eval.title),
                            !.filename = FilePath(eval.arxivId, eval.title)]
    /\ UNCHANGED <<storeVars, rate>>

NameNext == NameFile

SpecName == NameInit /\ [][NameNext]_vars

----------------------------------------------------------------------------
(* Specifications *)

Step(p) ==
    \/ BeginDownload(p)
    \/ DlAccess(p)
    \/ DlFetch(p)
    \/ DlWrite(p)
    \/ DlStat(p)
    \/ BeginList(p)
    \/ LiAccess(p)
    \/ BeginDelete(p)
    \/ DelUnlink(p)
    \/ WriteJsonDone(p)

\* one tool call at a time (the store's stated assumption)
Next ==
    \/ \E p \in SeqProcs : Step(p)
    \/ EnvDelete
    \/ Restart

Spec == Init /\ [][Next]_vars

\* tool calls overlap at their await points, as the request handler allows
NextConc ==
    \/ \E p \in Procs : Step(p)
    \/ EnvDelete
    \/ Restart

SpecConc == Init /\ [][NextConc]_vars

\* one tool call at a time, every call entering through its tool: a download
\* begins with the metadata lookup of download_paper
ToolStep(p) ==
    \/ DownloadPaper(p)
    \/ DpLookup(p)
    \/ ReadPaper(p)
    \/ RdRead(p)
    \/ DlAccess(p)
    \/ DlFetch(p)
    \/ DlWrite(p)
    \/ DlStat(p)
    \/ BeginList(p)
    \/ LiAccess(p)
    \/ BeginDelete(p)
    \/ DelUnlink(p)
    \/ WriteJsonDone(p)

ToolsNext ==
    \/ \E p \in SeqProcs : ToolStep(p)
    \/ EnvDelete
    \/ Restart

SpecTools == Init /\ [][ToolsNext]_vars

\* one store call at a time for two identifiers that differ only in a slash
\* and an underscore; the lookup supplies the same title for both
AliasIds == { <<"h", "/", "1">>, <<"h", "_", "1">> }

AliasStep(p) ==
    \/ BeginDownloadOf(p, AliasIds)
    \/ DlAccess(p)
    \/ DlFetch(p)
    \/ DlWrite(p)
    \/ DlStat(p)
    \/ BeginList(p)
    \/ LiAccess(p)
    \/ BeginDeleteOf(p, AliasIds)
    \/ DelUnlink(p)
    \/ WriteJsonDone(p)

AliasNext == \E p \in SeqProcs : AliasStep(p)

SpecAlias == Init /\ [][AliasNext]_vars

\* The start of the server.  The constructor (index.ts lines 486-508) calls
\* initializeManagers without awaiting it and run() connects the transport,
\* so tool calls are handled while storageManager.initialize() is still at
\* one of its awaits: before readFile has read metadata.json (pc "read"), or
\* after it has and before the Map is assigned (pc "assign").
Booting(pc, data) == [fn |-> "initialize", pc |-> pc, data |-> data]

BootInit ==
    /\ StoreInit
    /\ eval = Booting("read", NoFile)
    /\ rate = NoRate

\* the process ends and a new one is started: the Map of the new
\* StorageManager is empty, no call is in flight, initialize() has begun
Start ==
    /\ metadata' = <<>>
    /\ calls' = [p \in Procs |-> IdleCall]
    /\ eval' = Booting("read", NoFile)
    /\ UNCHANGED <<disk, files, clock, rate>>

\* readJsonFile lines 215-225: fs.readFile reads metadata.json as it is now
InitRead ==
    /\ eval.fn = "initialize" /\ eval.pc = "read"
    /\ eval' = Booting("assign", disk)
    /\ UNCHANGED <<storeVars, rate>>

\* loadMetadata lines 26-30: the promise settles; the Map is replaced when
\* the file was read.  (A list call that is iterating would go on over the
\* Map object that was replaced; that interleaving is left out.)
InitAssign ==
    /\ eval.fn = "initialize" /\ eval.pc = "assign"
    /\ eval.data.present => \A p \in Procs : calls[p].pc # "li_access"
    /\ metadata' = IF eval.data.present THEN loadMetadata(eval.data) ELSE metadata
    /\ eval' = Booting("done", NoFile)
    /\ UNCHANGED <<disk, files, clock, calls, rate>>

BootNext ==
    \/ \E p \in SeqProcs : Step(p)
    \/ Start
    \/ InitRead
    \/ InitAssign

SpecBoot == BootInit /\ [][BootNext]_vars

----------------------------------------------------------------------------
(* Vocabulary of the properties *)

\* call p moved in this step and was not wiped by a restart
Moved(p) == calls'[p] # calls[p] /\ calls'[p].pc # "idle"

Done(p, op) == calls[p].pc = "done" /\ calls[p].op = op
ListDone(p) == calls[p].pc = "done" /\ calls[p].op \in {"list", "stats"}

\* a step of an acquire that has not written its artifact (yet)
BeforeArtifact(p) ==
    Moved(p) /\ calls'[p].op = "download" /\ calls'[p].fileWrites = 0

InSeq(x, sq) == \E i \in 1..Len(sq) : sq[i] = x
NoDuplicateIds(m) == \A i, j \in 1..Len(m) : m[i].id = m[j].id => i = j

----------------------------------------------------------------------------
(* C1 *)

\* C1: acquire is idempotent.  When the access check of downloadPaper finds
\* the catalog entry of the id and its artifact file, the call returns that
\* entry with every field as stored, has fetched nothing, has written neither
\* an artifact nor the catalog, and leaves Map, metadata.json and the storage
\* directory as they were, as did the step that began the call; this is a
\* property of every such call.
C1_AcquireIdempotent ==
    /\ [][\A p \in Procs :
         ( /\ calls[p].pc = "dl_access"
           /\ MapGet(metadata, calls[p].arxivId) = calls[p].existing
           /\ AccessOk(calls[p].existing.filePath)
           /\ Moved(p) )
         => /\ calls'[p].pc = "done" /\ calls'[p].outcome = "ok"
            /\ calls'[p].ret = MapGet(metadata, calls[p].arxivId)
            /\ calls'[p].fetches = 0
            /\ calls'[p].fileWrites = 0
            /\ calls'[p].catalogWrites = 0
            /\ metadata' = metadata /\ disk' = disk /\ files' = files]_vars
    /\ [][\A p \in Procs :
            (Moved(p) /\ calls'[p].pc = "dl_access")
            => (metadata' = metadata /\ disk' = disk /\ files' = files)]_vars

\* a second acquire of a stored paper has returned the stored entry
C1_Witness ==
    \E p \in Procs :
        /\ Done(p, "download") /\ calls[p].outcome = "ok"
        /\ calls[p].fetches = 0
        /\ calls[p].ret # NoPaper
        /\ calls[p].ret = MapGet(metadata, calls[p].arxivId)
        /\ AccessOk(calls[p].ret.filePath)

----------------------------------------------------------------------------
(* C2 *)

\* every entry of the Map whose file is there is among the returned papers
C2_PresentReturned(p) ==
    \A i \in 1..Len(metadata) :
        AccessOk(metadata[i].filePath) => InSeq(metadata[i], calls[p].papers)

\* C2: list heals the catalog.  When a list call has ended, no id whose
\* artifact was missing when the call began is in the Map or among the
\* returned papers, every returned paper is an entry of the Map, and every
\* entry whose artifact exists is returned.  An id that is not in the Map
\* comes back only by a download of that id, so later calls in the same
\* process do not return it either.
C2_SelfHealingList ==
    /\ [](\A p \in Procs : ListDone(p) =>
            /\ \A id \in calls[p].missing0 :
                   /\ ~MapHas(metadata, id)
                   /\ \A i \in 1..Len(calls[p].papers) : calls[p].papers[i].id # id
            /\ \A i \in 1..Len(calls[p].papers) : InSeq(calls[p].papers[i], metadata)
            /\ calls[p].outcome = "ok" => C2_PresentReturned(p))
    /\ [][\A id \in Ids :
            (~MapHas(metadata, id) /\ MapHas(metadata', id))
            => \/ \E p \in Procs : /\ calls[p].pc = "dl_stat"
                                   /\ calls[p].arxivId = id
                                   /\ Moved(p)
               \/ metadata' = loadMetadata(disk) /\ \A p \in Procs : calls'[p] = IdleCall]_vars

\* a list call dropped the entry of a deleted file and returned another one
C2_Witness ==
    \E p \in Procs :
        /\ Done(p, "list") /\ calls[p].outcome = "ok"
        /\ calls[p].missing0 # {}
        /\ calls[p].dropped = 1
        /\ Len(calls[p].papers) = 1

----------------------------------------------------------------------------
(* C3 *)

\* C3: a list call that dropped an entry has written the pruned catalog
\* exactly once when it returns, so that metadata.json equals the Map; a list
\* call that dropped nothing has written nothing.
C3_PrunedCatalogPersisted ==
    \A p \in Procs :
        (ListDone(p) /\ calls[p].outcome = "ok") =>
            IF calls[p].dropped > 0
            THEN calls[p].catalogWrites = 1 /\ disk = JsonFile(metadata)
            ELSE calls[p].catalogWrites = 0

----------------------------------------------------------------------------
(* C4 *)

\* the unlink of call p rejected in this step
UnlinkRejected(p) ==
    /\ calls[p].pc = "del_unlink" /\ Moved(p)
    /\ calls'[p].log \in {"EPERM", "ENOENT"}

\* C4: eviction is atomic.  When unlink rejects, the step leaves the Map and
\* metadata.json exactly as they were, the entry of the id included, and no
\* file is removed; a list call that ends afterwards returns every entry
\* whose file is still there, so the id stays listable while its artifact is
\* present.
C4_EvictionAtomic ==
    /\ [][\A p \in Procs :
            UnlinkRejected(p)
            => /\ metadata' = metadata
               /\ disk' = disk
               /\ files' = files
               /\ MapGet(metadata', calls[p].arxivId) = calls[p].paper
               /\ calls'[p].pc = "done" /\ ~calls'[p].deleted]_vars
    /\ [](\A p \in Procs : (ListDone(p) /\ calls[p].outcome = "ok") => C2_PresentReturned(p))

\* an evict whose unlink was refused: entry and file are both still there
C4_Witness ==
    \E p \in Procs :
        /\ Done(p, "delete") /\ calls[p].log = "EPERM"
        /\ MapGet(metadata, calls[p].arxivId) = calls[p].paper
        /\ disk.present /\ MapGet(disk.data, calls[p].arxivId) = calls[p].paper
        /\ AccessOk(calls[p].paper.filePath)

----------------------------------------------------------------------------
(* C5 *)

\* C5: an evict whose unlink rejected ends with an error thrown to its
\* caller; it returns false only when the Map had no entry for the id.
C5_EvictFailureThrown ==
    \A p \in Procs :
        Done(p, "delete") =>
            /\ calls[p].log \in {"EPERM", "ENOENT"} => calls[p].outcome = "error"
            /\ (calls[p].outcome = "ok" /\ ~calls[p].deleted) => calls[p].paper = NoPaper

----------------------------------------------------------------------------
(* C6 *)

\* C6: an evict that returned true.  The artifact file of the id is gone,
\* neither the Map nor metadata.json holds an entry for the id, and
\* metadata.json is the serialized Map.  The step that removed the file and
\* the entry changed no other file and no other entry of the Map.  A list
\* call returns only entries of the Map, so it does not return the id.
C6_EvictTrue ==
    /\ [](\A p \in Procs :
            (Done(p, "delete") /\ calls[p].outcome = "ok" /\ calls[p].deleted)
            => /\ ~AccessOk(calls[p].paper.filePath)
               /\ ~MapHas(metadata, calls[p].arxivId)
               /\ disk.present /\ ~MapHas(disk.data, calls[p].arxivId)
               /\ disk = JsonFile(metadata))
    /\ [][\A p \in Procs :
            (calls[p].pc = "del_unlink" /\ Moved(p) /\ calls'[p].pc = "save")
            => /\ DOMAIN files' = DOMAIN files \ {calls[p].paper.filePath}
               /\ \A f \in DOMAIN files' : files'[f] = files[f]
               /\ \A id \in Ids \ {calls[p].arxivId} :
                      MapGet(metadata', id) = MapGet(metadata, id)
               /\ Len(metadata') = Len(metadata) - 1]_vars
    /\ [](\A p \in Procs : ListDone(p) =>
            \A i \in 1..Len(calls[p].papers) : MapHas(metadata, calls[p].papers[i].id))

\* an evict returned true while another paper stayed in the catalog
C6_Witness ==
    \E p \in Procs :
        /\ Done(p, "delete") /\ calls[p].outcome = "ok" /\ calls[p].deleted
        /\ calls[p].paper # NoPaper
        /\ Len(metadata) = 1
        /\ AccessOk(metadata[1].filePath)
        /\ disk = JsonFile(metadata)

----------------------------------------------------------------------------
(* C7 *)

\* C7: a fetch that was answered with a non-success response ends the
\* acquire with an error in that same step: no artifact is written and Map,
\* metadata.json and the storage directory stay as they were, as in every
\* step of an acquire that has not written its artifact.  An acquire
\* that returns an entry it created has received a success response and has
\* written the artifact at the entry's path.
C7_FetchFailure ==
    /\ [][\A p \in Procs :
            (calls[p].pc = "dl_fetch" /\ Moved(p) /\ calls'[p].response = "not ok")
            => /\ calls'[p].pc = "done" /\ calls'[p].outcome = "error"
               /\ calls'[p].ret = NoPaper
               /\ calls'[p].fileWrites = 0
               /\ metadata' = metadata /\ disk' = disk /\ files' = files]_vars
    /\ [][\A p \in Procs :
            BeforeArtifact(p)
            => (metadata' = metadata /\ disk' = disk /\ files' = files)]_vars
    /\ [](\A p \in Procs :
            /\ calls[p].fileWrites > 0 => calls[p].response = "ok"
            /\ (Done(p, "download") /\ calls[p].outcome = "ok" /\ calls[p].fetches > 0)
               => /\ calls[p].response = "ok"
                  /\ calls[p].fileWrites = 1
                  /\ calls[p].ret.filePath = FilePath(calls[p].arxivId, calls[p].title))

\* an acquire ended with the error of a non-success response while the
\* catalog held another paper
C7_Witness ==
    \E p \in Procs :
        /\ Done(p, "download") /\ calls[p].outcome = "error"
        /\ calls[p].response = "not ok" /\ calls[p].log = "fetch"
        /\ Len(metadata) = 1 /\ disk = JsonFile(metadata)
        /\ ~MapHas(metadata, calls[p].arxivId)

----------------------------------------------------------------------------
(* C8 *)

\* the call returned an entry that it fetched and stored itself
NewlyAcquired(p) ==
    Done(p, "download") /\ calls[p].outcome = "ok" /\ calls[p].fetches > 0

\* C8: when acquire returns an entry it created, the artifact was written
\* and metadata.json already holds that entry under the id, so the Map that
\* loadMetadata builds from the file holds it too; a restart loads exactly
\* that Map, and a list call returns every entry of the Map whose artifact
\* exists.  Neither the Map nor metadata.json ever holds two entries for one
\* id, also after an id whose artifact had gone missing was fetched again.
C8_DurableAcquire ==
    /\ [](\A p \in Procs :
            NewlyAcquired(p)
            => /\ calls[p].fileWrites = 1
               /\ disk.present
               /\ MapGet(disk.data, calls[p].arxivId) = calls[p].ret
               /\ MapGet(loadMetadata(disk), calls[p].arxivId) = calls[p].ret
               /\ MapGet(metadata, calls[p].arxivId) = calls[p].ret)
    /\ [](NoDuplicateIds(metadata) /\ NoDuplicateIds(disk.data))
    /\ [][((\E p \in Procs : calls[p].pc # "idle") /\ (\A p \in Procs : calls'[p].pc = "idle"))
          => (metadata' = loadMetadata(disk) /\ disk' = disk /\ files' = files)]_vars
    /\ [](\A p \in Procs : (ListDone(p) /\ calls[p].outcome = "ok") => C2_PresentReturned(p))

\* an acquire fetched again an id whose entry had lost its artifact, and
\* returned the new entry: one entry for the id, in the Map and in the file
C8_Witness ==
    \E p \in Procs :
        /\ NewlyAcquired(p)
        /\ calls[p].existing # NoPaper
        /\ calls[p].ret # calls[p].existing
        /\ metadata = <<calls[p].ret>>
        /\ disk = JsonFile(metadata)
        /\ AccessOk(calls[p].ret.filePath)

----------------------------------------------------------------------------
(* C9 *)

\* C9: no update is lost.  When every call has ended and the calls are
\* successful acquires of distinct ids, metadata.json equals the Map and
\* holds the entry each of them returned, unless that entry has left the Map
\* since (evicted, or dropped by list).
C9_NoLostUpdate ==
    ( /\ \A p \in Procs : NewlyAcquired(p)
      /\ \A p, q \in Procs : p # q => calls[p].arxivId # calls[q].arxivId )
    => /\ disk = JsonFile(metadata)
       /\ \A p \in Procs :
              InSeq(calls[p].ret, metadata) => InSeq(calls[p].ret, disk.data)

----------------------------------------------------------------------------
(* C10 *)

RECURSIVE SizeOfIndexes(_, _)
SizeOfIndexes(papers, I) ==
    IF I = {} THEN 0
    ELSE LET i == CHOOSE k \in I : TRUE
         IN  papers[i].fileSize + SizeOfIndexes(papers, I \ {i})

\* C10: stats is the aggregation of list.  When getStorageStats returns,
\* totalPapers is the number of papers its list returned and totalSize the sum
\* of their fileSize fields; those papers are exactly the entries the Map
\* holds after the call, and no id whose artifact was missing when the call
\* began is among them.
C10_StatsAggregate ==
    \A p \in Procs :
        (Done(p, "stats") /\ calls[p].outcome = "ok")
        => /\ calls[p].stats.totalPapers = Len(calls[p].papers)
           /\ calls[p].stats.totalSize =
                  SizeOfIndexes(calls[p].papers, 1..Len(calls[p].papers))
           /\ calls[p].papers = metadata
           /\ \A i \in 1..Len(calls[p].papers) :
                  calls[p].papers[i].id \notin calls[p].missing0

\* the documented example: two papers of 1000 and 2048 bytes give
\* totalPapers = 2, totalSize = 3048
C10_Witness ==
    \E p \in Procs :
        /\ Done(p, "stats") /\ calls[p].outcome = "ok"
        /\ {calls[p].papers[i].fileSize : i \in 1..Len(calls[p].papers)} = {1000, 2048}
        /\ calls[p].stats = [totalPapers |-> 2, totalSize |-> 3048]

\* a stats call that left out the paper whose artifact was missing
C10_WitnessMissing ==
    \E p \in Procs :
        /\ Done(p, "stats") /\ calls[p].outcome = "ok"
        /\ calls[p].missing0 # {}
        /\ calls[p].stats.totalPapers = 1

----------------------------------------------------------------------------
(* C11, C12 *)

Segmented == eval.fn = "extractSections" /\ eval.done

\* the sections object holds exactly the given name-to-body pairs
HasExactly(o, pairs) ==
    /\ ObjKeys(o) = {pr[1] : pr \in pairs}
    /\ \A pr \in pairs : ObjGet(o, pr[1]) = pr[2]

\* C11: segmentation keeps the order of the document.  The text Abstract /
\* Foo bar. / Introduction / Baz qux. (one per line) yields exactly the
\* sections abstract = "Foo bar." and introduction = "Baz qux."; in general
\* a heading line of section A, a body line, a heading line of another
\* section B and a body line yield exactly the keys A and B, each with its
\* own body.
C11_SegmentationOrdering ==
    Segmented =>
        /\ eval.text = ExampleText
           => HasExactly(eval.sections, {<<"abstract", Sample.Foo>>, <<"introduction", Sample.Baz>>})
        /\ \A hA, hB \in {<<Sample.Abstract, "abstract">>, <<Sample.Introduction, "introduction">>} :
           \A b1, b2 \in {Sample.Foo, Sample.Baz} :
              (hA # hB /\ eval.text = Join(<<hA[1], b1, hB[1], b2>>))
              => HasExactly(eval.sections, {<<hA[2], b1>>, <<hB[2], b2>>})

\* no line of the text is a section heading: no heading pattern matches a
\* line, with or without the line end that split took away
NoHeadingLine(text) ==
    \A i \in 1..Len(Split(text)) :
        /\ FoundSection(Split(text)[i]) = NoSection
        /\ FoundSection(Split(text)[i] \o <<"\n">>) = NoSection

\* C12 as stated: a text none of whose lines is a section heading yields an
\* empty sections object.
C12_NoHeadingEmpty ==
    (Segmented /\ NoHeadingLine(eval.text)) => eval.sections = <<>>

\* C12: a text none of whose lines is a section heading, and in which the
\* sweep for an inline abstract finds nothing, yields an empty sections
\* object; extractSections is total, so no error is raised.
C12_NoHeadingNoAbstractEmpty ==
    (Segmented /\ NoHeadingLine(eval.text) /\ ~AbstractMatch(eval.text).found)
    => eval.sections = <<>>

\* a text of two body lines came back with no section
C12_Witness ==
    /\ Segmented
    /\ eval.text = Join(<<Sample.Foo, Sample.Baz>>)
    /\ NoHeadingLine(eval.text) /\ ~AbstractMatch(eval.text).found
    /\ eval.sections = <<>>

----------------------------------------------------------------------------
(* C13 - C16 *)

Searching == eval.fn = "searchInPaper"
SearchDone == Searching /\ eval.done

\* the matches reported for a section, none when the section is not reported
MatchesOf(name) ==
    LET hits == {i \in 1..Len(eval.results) : eval.results[i].section = name}
    IN  IF hits = {} THEN <<>> ELSE eval.results[CHOOSE i \in hits : TRUE].matches

\* the term as a pattern occurs at zero-based offset q of the body, and
\* where that occurrence ends
OccursAt(sectionContent, q) ==
    MatchEnd(SearchRegex(eval.searchTerm, CaseSensitive(eval.caseSensitive)),
             sectionContent, q + 1) # 0
OccurrenceEnd(sectionContent, q) ==
    MatchEnd(SearchRegex(eval.searchTerm, CaseSensitive(eval.caseSensitive)),
             sectionContent, q + 1) - 1

Contains(s, w) == \E i \in 1..(Len(s) - Len(w) + 1) : SubSeq(s, i, i + Len(w) - 1) = w

OneIntroduction(sectionContent) == <<[name |-> "introduction", body |-> sectionContent]>>
Cat == <<"c", "a", "t">>

\* C13: search is correct.  When searchInPaper has returned, then for every
\* section with a non-empty body the reported positions are zero-based
\* offsets into that body at which the term occurs, they are strictly
\* increasing, no reported occurrence begins before the previous one has
\* ended, and every occurrence of the term in the body is either reported
\* or begins inside a reported one.  For {introduction: "the cat sat on the
\* mat"} and the term "cat", case-insensitive, the result is one section
\* with one match at offset 4 whose context contains "the cat sat".
C13_SearchCorrect ==
    SearchDone =>
        /\ \A k \in 1..Len(eval.sections) :
             LET sectionContent == eval.sections[k].body
                 M == MatchesOf(eval.sections[k].name)
             IN  sectionContent # <<>> =>
                   /\ \A i \in 1..Len(M) :
                        /\ M[i].position \in 0..(Len(sectionContent) - 1)
                        /\ OccursAt(sectionContent, M[i].position)
                   /\ \A i \in 1..(Len(M) - 1) :
                        /\ M[i].position < M[i + 1].position
                        /\ OccurrenceEnd(sectionContent, M[i].position) <= M[i + 1].position
                   /\ \A q \in 0..(Len(sectionContent) - 1) :
                        OccursAt(sectionContent, q)
                        => \E i \in 1..Len(M) :
                             /\ M[i].position <= q
                             /\ q < OccurrenceEnd(sectionContent, M[i].position)
        /\ ( /\ eval.sections = OneIntroduction(CatBody)
             /\ eval.searchTerm = Literal(Cat)
             /\ ~CaseSensitive(eval.caseSensitive) )
           => /\ Len(eval.results) = 1
              /\ eval.results[1].section = "introduction"
              /\ Len(eval.results[1].matches) = 1
              /\ eval.results[1].matches[1].position = 4
              /\ Contains(eval.results[1].matches[1].text,
                          SubSeq(CatBody, 1, 11))

\* a search returned two successive matches of one section, the first of
\* them not at offset 0
C13_Witness ==
    /\ SearchDone
    /\ eval.sections = OneIntroduction(<<"b", "a", "a">>)
    /\ eval.searchTerm = Literal(<<"a">>)
    /\ Len(eval.results) = 1
    /\ Len(eval.results[1].matches) = 2
    /\ eval.results[1].matches[1].position = 1
    /\ eval.results[1].matches[2].position = 2

\* the characters of a term without stars
TermChars(searchTerm) == [i \in 1..Len(searchTerm) |-> searchTerm[i].c]
IsLiteral(searchTerm) == \A i \in 1..Len(searchTerm) : ~searchTerm[i].star

\* w stands at zero-based offset q of s, in the same case or in any case
ExactAt(s, q, w) == q + Len(w) <= Len(s) /\ SubSeq(s, q + 1, q + Len(w)) = w
AnyCaseAt(s, q, w) ==
    /\ q + Len(w) <= Len(s)
    /\ \A i \in 1..Len(w) : s[q + i] \in BothCases(w[i])

\* C14: case sensitivity.  With caseSensitive = true every reported match
\* is an occurrence of the term in identical case, and a paper in which the
\* term occurs only in another case gives an empty result ("CAT" in "the cat
\* sat on the mat").  Without it (false or not given) every occurrence of
\* the term in any case is reported or begins inside a reported one.
C14_CaseSensitivity ==
    (SearchDone /\ IsLiteral(eval.searchTerm)) =>
        LET w == TermChars(eval.searchTerm)
        IN  /\ eval.caseSensitive = "true" =>
                /\ \A i \in 1..Len(eval.results) :
                   \A j \in 1..Len(eval.results[i].matches) :
                       \E k \in 1..Len(eval.sections) :
                           /\ eval.sections[k].name = eval.results[i].section
                           /\ ExactAt(eval.sections[k].body,
                                      eval.results[i].matches[j].position, w)
                /\ (\A k \in 1..Len(eval.sections) :
                    \A q \in 0..Len(eval.sections[k].body) :
                        ~ExactAt(eval.sections[k].body, q, w))
                   => eval.results = <<>>
            /\ eval.caseSensitive # "true" =>
                \A k \in 1..Len(eval.sections) :
                \A q \in 0..Len(eval.sections[k].body) :
                    AnyCaseAt(eval.sections[k].body, q, w)
                    => \E j \in 1..Len(MatchesOf(eval.sections[k].name)) :
                         LET at == MatchesOf(eval.sections[k].name)[j].position
                         IN  at <= q /\ q < at + Len(w)

\* the case-sensitive search for "CAT" in "the cat sat on the mat" returned
\* an empty result
C14_Witness ==
    /\ SearchDone
    /\ eval.sections = OneIntroduction(CatBody)
    /\ eval.searchTerm = Literal(<<"C", "A", "T">>)
    /\ eval.caseSensitive = "true"
    /\ AnyCaseAt(CatBody, 4, TermChars(eval.searchTerm))
    /\ eval.results = <<>>

\* C15: results are never empty.  Every element of the result has at least
\* one match and belongs to a section with a non-empty body, no two elements
\* name the same section, and when the search has returned, a section in
\* whose body the term does not occur is not among the elements.
C15_ResultsNonEmpty ==
    Searching =>
        /\ \A i \in 1..Len(eval.results) :
             /\ eval.results[i].matches # <<>>
             /\ \E k \in 1..Len(eval.sections) :
                  /\ eval.sections[k].name = eval.results[i].section
                  /\ eval.sections[k].body # <<>>
        /\ \A i, j \in 1..Len(eval.results) :
             eval.results[i].section = eval.results[j].section => i = j
        /\ eval.done =>
             \A k \in 1..Len(eval.sections) :
                 (\A q \in 0..Len(eval.sections[k].body) : ~OccursAt(eval.sections[k].body, q))
                 => \A i \in 1..Len(eval.results) :
                        eval.results[i].section # eval.sections[k].name

\* a search of two sections reported the one that holds the term and left
\* out the one that does not
C15_Witness ==
    /\ SearchDone
    /\ Len(eval.sections) = 2
    /\ eval.sections[1].body = <<"b">> /\ eval.sections[2].body = <<"a">>
    /\ eval.searchTerm = Literal(<<"a">>)
    /\ Len(eval.results) = 1
    /\ eval.results[1].section = "introduction"

\* C16: the context window.  For every match, reported or being collected,
\* at offset p of a body of length L, with a term of length t, the context
\* is the body from offset max(0, p - 50) up to offset min(L, p + t + 50);
\* it begins at or before p and has at most 100 + t characters.
C16_ContextWindow ==
    Searching =>
        LET t == TermLength(eval.searchTerm)
            Window(sectionContent, m) ==
                LET from == IF m.position - 50 > 0 THEN m.position - 50 ELSE 0
                    to == IF m.position + t + 50 < Len(sectionContent)
                          THEN m.position + t + 50 ELSE Len(sectionContent)
                IN  /\ m.text = SubSeq(sectionContent, from + 1, to)
                    /\ from <= m.position
                    /\ to <= Len(sectionContent)
                    /\ Len(m.text) <= 100 + t
        IN  /\ \A i \in 1..Len(eval.results) :
               \A j \in 1..Len(eval.results[i].matches) :
                   \E k \in 1..Len(eval.sections) :
                       /\ eval.sections[k].name = eval.results[i].section
                       /\ Window(eval.sections[k].body, eval.results[i].matches[j])
            /\ \A j \in 1..Len(eval.matches) :
                   Window(eval.sections[eval.k].body, eval.matches[j])

\* a match with more than 50 characters of body on both sides: its context
\* is cut on both sides and has 100 + t characters
C16_Witness ==
    /\ SearchDone
    /\ eval.sections = OneIntroduction(LongBody)
    /\ eval.searchTerm = Literal(Cat)
    /\ Len(eval.results) = 1
    /\ eval.results[1].matches[1].position = 60
    /\ Len(eval.results[1].matches[1].text) = 103
    /\ eval.results[1].matches[1].text = SubSeq(LongBody, 11, 113)

----------------------------------------------------------------------------
(* C17 *)

\* a read_paper_content or search_in_paper call ended because the list of
\* downloaded papers holds no paper with its id
NotDownloaded(p) ==
    /\ calls[p].pc = "done"
    /\ calls[p].tool \in {"read_paper_content", "search_in_paper"}
    /\ calls[p].arxivId # NoArg
    /\ calls[p].log = "not downloaded"

\* C17: a read or search of an id without a valid catalog entry fails with
\* an error of a kind of its own, which is neither the kind of a validation
\* error nor the kind of a storage, fetch or decode failure, and no file is
\* decoded.
C17_NotDownloadedKind ==
    \A p \in Procs :
        NotDownloaded(p) =>
            /\ calls[p].outcome = "error"
            /\ calls[p].kind \notin {"ValidationError", "Error"}
            /\ calls[p].decodes = 0

----------------------------------------------------------------------------
(* C20 *)

\* the lookup of the call returned a paper that has a PDF link
LookupGavePdf(p) ==
    /\ calls[p].lookup # <<>>
    /\ \E i \in 1..Len(calls[p].lookup[1].links) :
           calls[p].lookup[1].links[i].type = "application/pdf"

\* C20: download_paper acquires only after a lookup with a PDF link.  A call
\* that has called storageManager.downloadPaper was given an arxivId and
\* its lookup returned a paper with a PDF link.  A call without arxivId, and
\* a call whose lookup returned no paper or a paper without PDF link, ends
\* with a ValidationError, has not called the store and has fetched and
\* written nothing; no step of a call that has not called the store changes
\* the Map, metadata.json or the storage directory.
C20_AcquireNeedsPdfLink ==
    /\ [](\A p \in Procs :
            calls[p].tool = "download_paper" =>
                /\ calls[p].storeCalls > 0 => (calls[p].arxivId # NoArg /\ LookupGavePdf(p))
                /\ ( /\ calls[p].pc = "done"
                     /\ calls[p].log # "lookup"
                     /\ (calls[p].arxivId = NoArg \/ ~LookupGavePdf(p)) )
                   => /\ calls[p].outcome = "error"
                      /\ calls[p].kind = "ValidationError"
                      /\ calls[p].storeCalls = 0
                      /\ calls[p].fetches = 0
                      /\ calls[p].fileWrites = 0
                      /\ calls[p].catalogWrites = 0)
    /\ [][\A p \in Procs :
            (Moved(p) /\ calls'[p].tool = "download_paper" /\ calls'[p].storeCalls = 0)
            => (metadata' = metadata /\ disk' = disk /\ files' = files)]_vars

\* a download_paper call for a paper without PDF link ended with a
\* ValidationError while the catalog held another paper
C20_Witness ==
    \E p \in Procs :
        /\ calls[p].pc = "done" /\ calls[p].tool = "download_paper"
        /\ calls[p].arxivId # NoArg
        /\ calls[p].lookup # <<>> /\ ~LookupGavePdf(p)
        /\ calls[p].kind = "ValidationError"
        /\ calls[p].storeCalls = 0
        /\ Len(metadata) = 1 /\ ~MapHas(metadata, calls[p].arxivId)

----------------------------------------------------------------------------
(* C18 *)

\* C18: rate limiting.  Any two requests sent to the arXiv API are at least
\* RATE_LIMIT_DELAY (3 seconds) apart, whatever tool calls arrive and
\* however they overlap, calls that arrive while an earlier call is waiting
\* included.
C18_RequestsSpaced ==
    rate.on =>
        \A i, j \in 1..Len(rate.sent) :
            i < j => rate.sent[j] - rate.sent[i] >= RATE_LIMIT_DELAY

----------------------------------------------------------------------------
(* C19 *)

Named == eval.fn = "filePath" /\ eval.done

\* C19: the name of an artifact.  The file name is the identifier with
\* every slash replaced by an underscore, an underscore, the sanitized title
\* and ".pdf"; it contains no slash.  The sanitized title holds none of the
\* characters < > : " / \ | ? *, no whitespace and no two underscores in a
\* row, and has at most 200 characters.
C19_ArtifactNaming ==
    Named =>
        /\ eval.filename =
              [i \in 1..Len(eval.arxivId) |->
                  IF eval.arxivId[i] = "/" THEN "_" ELSE eval.arxivId[i]]
              \o <<"_">> \o eval.sanitized \o <<".pdf">>
        /\ \A i \in 1..Len(eval.filename) : eval.filename[i] # "/"
        /\ \A i \in 1..Len(eval.sanitized) :
               eval.sanitized[i] \notin {"<", ">", ":", "\"", "/", "\\", "|", "?", "*",
                                         " ", "\t", "\n", "\r"}
        /\ \A i \in 1..(Len(eval.sanitized) - 1) :
               ~(eval.sanitized[i] = "_" /\ eval.sanitized[i + 1] = "_")
        /\ Len(eval.sanitized) <= 200

----------------------------------------------------------------------------
(* Eviction and the persisted catalog *)

\* the delete call of p removed the artifact of its entry: unlink resolved
\* (line 138), whatever happened to the catalog afterwards
UnlinkedByCall(p) ==
    /\ Done(p, "delete")
    /\ calls[p].paper # NoPaper
    /\ calls[p].log \in {"none", "writeJson"}

PersistedHas(id) == disk.present /\ MapHas(disk.data, id)

\* C21: eviction never leaves "entry present, file absent".  After a delete
\* call that removed the artifact of id, whatever it returned, neither the Map
\* nor metadata.json holds an entry for id.
C21_EvictNoDangling ==
    \A p \in Procs :
        UnlinkedByCall(p) =>
            /\ ~MapHas(metadata, calls[p].arxivId)
            /\ ~PersistedHas(calls[p].arxivId)

----------------------------------------------------------------------------
(* C22 - C26: the sections object *)

\* the positions of the text that the body of the k-th section occupies
BodyPositions(k) == eval.sections[k].span[1]..eval.sections[k].span[2]

\* the abstract is the only section and came from the sweep of line 80
AbstractBySweep ==
    /\ Segmented
    /\ ObjKeys(eval.sections) = {"abstract"}
    /\ AbstractMatch(eval.text).found

LabelPositions(text) == {i \in 1..Len(text) : AnyCaseAt(text, i - 1, Words.abstract)}

\* the position after the first "abstract", and after the colons and white
\* space that follow it
LabelEnd(text) == SetMin(LabelPositions(text)) + Len(Words.abstract)
ContentStart(text) == LabelEnd(text) + RunLength(text, LabelEnd(text), WhiteSpace \cup {":"})

LineEndAt(text, e) == e <= Len(text) /\ text[e] = "\n"

\* a line end followed by a line of white space only
BlankLineAt(text, e) ==
    /\ LineEndAt(text, e)
    /\ \E m \in (e + 1)..Len(text) :
         /\ text[m] = "\n"
         /\ \A x \in (e + 1)..(m - 1) : text[x] \in WhiteSpace

Digits == {"0", "1", "2", "3", "4", "5", "6", "7", "8", "9"}

\* the ends of the abstract as C23 states them: a blank line, the word
\* "introduction", a line that starts with a number and a dot, "keywords"
StatedEndAt(text, e) ==
    \/ BlankLineAt(text, e)
    \/ AnyCaseAt(text, e - 1, Words.introduction)
    \/ LineEndAt(text, e) /\ e + 2 <= Len(text) /\ text[e + 1] \in Digits /\ text[e + 2] = "."
    \/ AnyCaseAt(text, e - 1, Words.keywords)

\* the ends of the abstract in the amended claim: a blank line, a line that
\* starts with "introduction", a line that starts with "1.", "keywords"
SweepEndAt(text, e) ==
    \/ BlankLineAt(text, e)
    \/ LineEndAt(text, e) /\ AnyCaseAt(text, e, Words.introduction)
    \/ LineEndAt(text, e) /\ ExactAt(text, e, <<"1", ".">>)
    \/ AnyCaseAt(text, e - 1, Words.keywords)

StatedEnds(text) == {e \in (ContentStart(text) + 1)..Len(text) : StatedEndAt(text, e)}
EndsAfter(text) == {e \in (ContentStart(text) + 1)..Len(text) : SweepEndAt(text, e)}
EndsWithin(text) == {e \in (LabelEnd(text) + 1)..ContentStart(text) : SweepEndAt(text, e)}

ScanGaveAbstract(text) ==
    ObjHas(LineScan(text), "abstract") /\ ObjGet(LineScan(text), "abstract") # <<>>

\* the entries other than abstract are those of the line scan
OthersKept(text, out) ==
    /\ ObjKeys(out) \subseteq ObjKeys(LineScan(text)) \cup {"abstract"}
    /\ \A k \in 1..Len(LineScan(text)) :
         LineScan(text)[k].name # "abstract" => \E j \in 1..Len(out) : out[j] = LineScan(text)[k]

HeadingOf(line) == FoundSection_WithLineEnd(line)
IsHeading(line) == HeadingOf(line) # NoSection

\* the position in the text of the i-th line
RECURSIVE LineStart(_, _)
LineStart(ls, i) == IF i = 1 THEN 1 ELSE LineStart(ls, i - 1) + Len(ls[i - 1]) + 1

\* the positions of the text before the first heading line (all of them when
\* there is no heading line)
BeforeFirstHeading(text) ==
    LET ls == Split(text)
        hs == {i \in 1..Len(ls) : IsHeading(ls[i])}
    IN  IF hs = {} THEN 1..Len(text) ELSE 1..(LineStart(ls, SetMin(hs)) - 1)

\* C24: a heading line immediately followed by another heading line produces
\* no entry for the first heading (when that section is opened nowhere
\* else), and no section body is taken from the lines before the first
\* heading line.
C24_HeadingsAndPreamble ==
    Segmented =>
        LET ls == Split(eval.text)
        IN  /\ \A i \in 1..(Len(ls) - 1) :
                 ( /\ IsHeading(ls[i]) /\ IsHeading(ls[i + 1])
                   /\ \A j \in 1..Len(ls) : HeadingOf(ls[j]) = HeadingOf(ls[i]) => j = i )
                 => ~ObjHas(eval.sections, HeadingOf(ls[i]))
            /\ \A k \in 1..Len(eval.sections) :
                 BodyPositions(k) \cap BeforeFirstHeading(eval.text) = {}

\* C25: no section has an empty or whitespace-only body.
C25_NoEmptyBody ==
    Segmented => \A k \in 1..Len(eval.sections) : Trim(eval.sections[k].body) # <<>>

\* C26: the first name of the table whose pattern matches wins, the section
\* is stored under the canonical name, and a name opened several times has
\* one entry with the body of its last non-empty occurrence.  The text
\* Summary / Foo bar. yields abstract = "Foo bar." and no conclusion; every
\* key is a name of the table and occurs once; Introduction / Foo bar. /
\* Introduction yields introduction = "Foo bar.".
C26_FirstNameWins ==
    Segmented =>
        /\ \A k \in 1..Len(eval.sections) :
             /\ \E n \in 1..Len(sectionPatterns) : sectionPatterns[n].name = eval.sections[k].name
             /\ \A j \in 1..Len(eval.sections) :
                  eval.sections[j].name = eval.sections[k].name => j = k
        /\ \A b \in {Sample.Foo, Sample.Baz} :
             /\ eval.text = Join(<<Sample.Summary, b>>)
                => HasExactly(eval.sections, {<<"abstract", b>>})
             /\ eval.text = Join(<<Sample.Introduction, b, Sample.Introduction>>)
                => HasExactly(eval.sections, {<<"introduction", b>>})

----------------------------------------------------------------------------
(* C27: termination of the search loop *)

\* C27: searchInPaper terminates.  The loop of lines 108-118 over a section
\* of n characters ends when the positions of the matches it finds strictly
\* increase: every turn then finds a match to the right of the one before,
\* and at most n + 1 turns are possible.  In every state of the search the
\* positions of the matches collected for the section in hand strictly
\* increase.
C27_SearchTerminates ==
    Searching =>
        \A i, j \in 1..Len(eval.matches) :
            i < j => eval.matches[i].position < eval.matches[j].position

----------------------------------------------------------------------------
(* C28: artifacts of distinct entries *)

\* C28: distinct catalog entries never share an artifact.  In every state
\* two entries of the Map with different identifiers have different file
\* paths.
C28_DistinctArtifacts ==
    \A i, j \in 1..Len(metadata) :
        metadata[i].id # metadata[j].id => metadata[i].filePath # metadata[j].filePath

----------------------------------------------------------------------------
(* C29: a failed acquire *)

\* C29: a failed acquire changes nothing.  After a downloadPaper call that
\* threw, at whatever step, the Map holds for the id what it held when the
\* call began (the entry the call read at line 50, or none), and the call
\* has not written metadata.json.
C29_FailedAcquireNoChange ==
    \A p \in Procs :
        (Done(p, "download") /\ calls[p].outcome = "error")
        => /\ MapGet(metadata, calls[p].arxivId) = calls[p].existing
           /\ calls[p].catalogWrites = 0

----------------------------------------------------------------------------
(* C30: the initial load of the catalog *)

Loading == eval.fn = "initialize" /\ eval.pc # "done"

\* C30: the initial load completes before any tool call reads or changes
\* the catalog.  A list call that returned while the load was pending
\* returned every entry of metadata.json whose artifact exists, and the load
\* never replaces a Map that holds an entry added by acquire: after an
\* acquire that returned, the Map holds the entry it returned.
C30_LoadBeforeCalls ==
    /\ \A p \in Procs :
         (Loading /\ Done(p, "list") /\ disk.present)
         => \A i \in 1..Len(disk.data) :
                AccessOk(disk.data[i].filePath)
                => \E j \in 1..Len(calls[p].papers) : calls[p].papers[j].id = disk.data[i].id
    /\ \A p \in Procs :
         (eval.fn = "initialize" /\ Done(p, "download") /\ calls[p].outcome = "ok")
         => MapGet(metadata, calls[p].arxivId) = calls[p].ret

====
